---- MODULE Spec2Model ----
\* Model of the Resume_Analyzer repository:
\*   ai_analyzer.py    AIResumeAnalyzer (the text-generation boundary)
\*   pdf_extractor.py  PDFExtractor (document extraction and validation)
\*   test.py           the Streamlit application (main and the display functions)
\* A Python str is a sequence of one-character strings in the extraction
\* part and a sequence of text chunks in the text-generation part.
EXTENDS Integers, Sequences, FiniteSets, TLC

VARIABLES
    api_key,          \* AIResumeAnalyzer.api_key, per analyzer instance
    openai_api_key,   \* the module-global openai.api_key
    ai_last,          \* the last call through the text-generation boundary
    ai_prev,          \* the call before it
    uploaded_file,    \* the uploaded file
    pdf_pc,           \* how far the extraction of uploaded_file has got
    pdf_res,          \* what extract_text_from_pdf returned and reported
    pdf_val,          \* what validate_resume_content returned
    session_state,    \* st.session_state
    widgets,          \* the values of the sidebar and upload widgets in this run
    pc,               \* where the current run of the script is
    run,              \* what the current run has done and shown
    sub_scores,       \* what the five sub-scorers computed for a profile
    score_pc,         \* how far the display of the scores has got
    scoring,          \* (total_score, max_score, score_breakdown)
    shown,            \* what the score displays have put on the page
    prompt_args,      \* the arguments given to a prompt construction
    prompt,           \* the prompt built for the text-generation service
    text_arg,         \* the text given to a text function of PDFExtractor
    text_res          \* what the calls of that function returned, in order

ai_vars == <<api_key, openai_api_key, ai_last, ai_prev>>

pdf_vars == <<uploaded_file, pdf_pc, pdf_res, pdf_val>>

app_vars == <<session_state, widgets, pc, run>>

score_vars == <<sub_scores, score_pc, scoring, shown>>

prompt_vars == <<prompt_args, prompt>>

text_vars == <<text_arg, text_res>>

vars == <<ai_vars, pdf_vars, app_vars, score_vars, prompt_vars, text_vars>>

\* what an action of one part leaves alone
not_ai_vars == <<pdf_vars, app_vars, score_vars, prompt_vars, text_vars>>

not_pdf_vars == <<ai_vars, app_vars, score_vars, prompt_vars, text_vars>>

----------------------------------------------------------------------------
(* Python values *)

None == "<None>"

\* bool(x) of an optional credential or role name: None and "" are falsy
Truthy(x) == x \notin {None, ""}

\* an optional str whose characters are modelled: None, or a text
NoText == [none |-> TRUE, text |-> <<>>]

Text(t) == [none |-> FALSE, text |-> t]

\* bool(x) of an optional text
TruthyText(x) == ~x.none /\ Len(x.text) > 0

----------------------------------------------------------------------------
(* ai_analyzer.py *)

Instances == {"A", "B"}

\* credentials a session can supply
Keys == {None, "", "sk-1"}

\* the messages the two entry points return without a credential
\* (a text is a sequence of chunks; no chunk but "AI analysis" itself begins
\* with the characters of "AI analysis")
NoKeyComprehensive ==
    <<"AI analysis", " requires OpenAI API key. Please configure your API key to access detailed AI insights.">>

NoKeyImprovement == <<"AI improvement recommendations require OpenAI API key.">>

\* exception classes the external call can end with, and the two a malformed
\* response raises on response.choices[0].message.content.strip()
ApiExceptions ==
    {"AuthenticationError", "RateLimitError", "APIError", "APIConnectionError"}

MalformedExceptions == {"IndexError", "AttributeError"}

\* str(e): the text is the library's, whatever the class
ExcTexts == {"<empty message>", "Request failed"}

MalformedText(cls) ==
    IF cls = "IndexError" THEN "list index out of range"
    ELSE "'NoneType' object has no attribute 'strip'"

\* generated texts, before .strip()
Contents == {<<"Strong resume.">>, <<" ", "Add metrics.", " ">>}

\* outcomes of openai.ChatCompletion.create followed by reading the response
Outcomes ==
    [kind : {"ok"}, content : Contents]
        \cup [kind : {"exc"}, cls : ApiExceptions, text : ExcTexts]
        \cup {[kind |-> "exc", cls |-> c, text |-> MalformedText(c)] :
                 c \in MalformedExceptions}

\* failure category of an exception
Category(cls) ==
    CASE cls = "AuthenticationError" -> "authentication"
      [] cls = "RateLimitError" -> "rate-limit"
      [] OTHER -> "generic"

\* str.strip() on a chunked text whose blank chunks are " "
StripChunks(s) == SelectSeq(s, LAMBDA c : c # " ")

Returned(s, n) == [kind |-> "return", value |-> s, calls |-> n]

Raised(cls, n) == [kind |-> "raise", value |-> <<cls>>, calls |-> n]

\* bad arguments make prompt construction raise TypeError before the call
\* (resume_text[:4000] or weaknesses_analysis[:5] on None)
PromptRaises(arg_ok) == ~arg_ok

get_comprehensive_ai_analysis_nokeycheck(key, arg_ok, out) ==
    IF PromptRaises(arg_ok)
    THEN Returned(<<"Role-specific AI analysis unavailable: ", "TypeError">>, 0)
    ELSE IF out.kind = "ok"
    THEN Returned(StripChunks(out.content), 1)
    ELSE Returned(<<"Role-specific AI analysis unavailable: ", out.text>>, 1)

get_comprehensive_ai_analysis_narrow(key, arg_ok, out) ==
    IF ~Truthy(key)
    THEN Returned(NoKeyComprehensive, 0)
    ELSE IF PromptRaises(arg_ok)
    THEN Raised("TypeError", 0)
    ELSE IF out.kind = "ok"
    THEN Returned(StripChunks(out.content), 1)
    ELSE IF out.cls \in ApiExceptions
    THEN Returned(<<"Role-specific AI analysis unavailable: ", out.text>>, 1)
    ELSE Raised(out.cls, 1)

get_comprehensive_ai_analysis(key, arg_ok, out) ==
    IF ~Truthy(key)
    THEN Returned(NoKeyComprehensive, 0)
    ELSE IF PromptRaises(arg_ok)
    THEN Returned(<<"Role-specific AI analysis unavailable: ", "TypeError">>, 0)
    ELSE IF out.kind = "ok"
    THEN Returned(StripChunks(out.content), 1)
    ELSE Returned(<<"Role-specific AI analysis unavailable: ", out.text>>, 1)

get_improvement_recommendations(key, arg_ok, out) ==
    IF ~Truthy(key)
    THEN Returned(NoKeyImprovement, 0)
    ELSE IF PromptRaises(arg_ok)
    THEN Returned(<<"AI improvement recommendations unavailable: ", "TypeError">>, 0)
    ELSE IF out.kind = "ok"
    THEN Returned(StripChunks(out.content), 1)
    ELSE Returned(<<"AI improvement recommendations unavailable: ", out.text>>, 1)

\* openai.ChatCompletion.create itself raised: a malformed response raises
\* only where the response is read
CallFailed(out) == out.kind = "exc" /\ out.cls \in ApiExceptions

validate_api_connection_uncaught(key, out) ==
    IF ~Truthy(key)
    THEN Returned(<<FALSE, <<"No API key provided">>>>, 0)
    ELSE IF ~CallFailed(out)
    THEN Returned(<<TRUE, <<"API key validated successfully">>>>, 1)
    ELSE IF out.cls = "AuthenticationError"
    THEN Returned(<<FALSE, <<"Invalid API key - please check your OpenAI API key">>>>, 1)
    ELSE IF out.cls = "RateLimitError"
    THEN Returned(<<FALSE, <<"API rate limit exceeded - please try again later">>>>, 1)
    ELSE IF out.cls = "APIError"
    THEN Returned(<<FALSE, <<"API error: ", out.text>>>>, 1)
    ELSE Raised(out.cls, 1)

\* the (is_valid, message) pair; the test call's response is not read
validate_api_connection(key, out) ==
    IF ~Truthy(key)
    THEN Returned(<<FALSE, <<"No API key provided">>>>, 0)
    ELSE IF ~CallFailed(out)
    THEN Returned(<<TRUE, <<"API key validated successfully">>>>, 1)
    ELSE IF out.cls = "AuthenticationError"
    THEN Returned(<<FALSE, <<"Invalid API key - please check your OpenAI API key">>>>, 1)
    ELSE IF out.cls = "RateLimitError"
    THEN Returned(<<FALSE, <<"API rate limit exceeded - please try again later">>>>, 1)
    ELSE IF out.cls = "APIError"
    THEN Returned(<<FALSE, <<"API error: ", out.text>>>>, 1)
    ELSE Returned(<<FALSE, <<"Connection error: ", out.text>>>>, 1)

\* the external call was not reached
NotCalled == [kind |-> "none"]

\* category of the failure of the external call in a recorded call, "none"
\* when the call succeeded or was not made
FailureOf(out) == IF out.kind = "exc" THEN Category(out.cls) ELSE "none"

NoCall == [op |-> "none", self |-> "A", key |-> None, arg_ok |-> TRUE,
           out |-> NotCalled, res |-> Returned(<<>>, 0)]

NoPrev == [op |-> "none", failure |-> "none", value |-> <<>>]

\* AIResumeAnalyzer(api_key)
Construct(i, k) ==
    /\ api_key' = [api_key EXCEPT ![i] = k]
    /\ openai_api_key' = IF Truthy(k) THEN k ELSE openai_api_key
    /\ UNCHANGED <<ai_last, ai_prev, not_ai_vars>>

set_api_key(i, k) ==
    /\ api_key' = [api_key EXCEPT ![i] = k]
    /\ openai_api_key' = k
    /\ UNCHANGED <<ai_last, ai_prev, not_ai_vars>>

\* bookkeeping of a call: what was called, on which analyzer, with which
\* outcome of the external call (if it was made), and what came back
Call(op, i, arg_ok, out, res) ==
    [op |-> op, self |-> i, key |-> api_key[i], arg_ok |-> arg_ok,
     out |-> IF res.calls > 0 THEN out ELSE NotCalled, res |-> res]

Shift == [op |-> ai_last.op, failure |-> FailureOf(ai_last.out),
          value |-> ai_last.res.value]

CallComprehensive(i, arg_ok, out) ==
    /\ ai_last' = Call("comprehensive", i, arg_ok, out,
                       get_comprehensive_ai_analysis(api_key[i], arg_ok, out))
    /\ ai_prev' = Shift
    /\ UNCHANGED <<api_key, openai_api_key, not_ai_vars>>

CallImprovement(i, arg_ok, out) ==
    /\ ai_last' = Call("improvement", i, arg_ok, out,
                       get_improvement_recommendations(api_key[i], arg_ok, out))
    /\ ai_prev' = Shift
    /\ UNCHANGED <<api_key, openai_api_key, not_ai_vars>>

CallValidate(i, out) ==
    /\ ai_last' = Call("validate", i, TRUE, out,
                       validate_api_connection(api_key[i], out))
    /\ ai_prev' = Shift
    /\ UNCHANGED <<api_key, openai_api_key, not_ai_vars>>

AINext ==
    \/ \E i \in Instances, k \in Keys : Construct(i, k)
    \/ \E i \in Instances, k \in Keys : set_api_key(i, k)
    \/ \E i \in Instances, a \in BOOLEAN, o \in Outcomes : CallComprehensive(i, a, o)
    \/ \E i \in Instances, a \in BOOLEAN, o \in Outcomes : CallImprovement(i, a, o)
    \/ \E i \in Instances, o \in Outcomes : CallValidate(i, o)

----------------------------------------------------------------------------
(* Python str as a sequence of characters *)

IsSpace(c) == c \in {" ", "\n", "\t"}

\* the positions of the non-whitespace characters of s
Solid(s) == {n \in 1 .. Len(s) : ~IsSpace(s[n])}

\* the first and the last non-whitespace position of a text that has one
FirstSolid(s) ==
    CHOOSE n \in 1 .. Len(s) : ~IsSpace(s[n]) /\ \A m \in 1 .. (n - 1) : IsSpace(s[m])

LastSolid(s) ==
    CHOOSE n \in 1 .. Len(s) :
        ~IsSpace(s[n]) /\ \A m \in (n + 1) .. Len(s) : IsSpace(s[m])

\* str.strip()
strip(s) ==
    IF \A n \in 1 .. Len(s) : IsSpace(s[n])
    THEN <<>>
    ELSE SubSeq(s, FirstSolid(s), LastSolid(s))

\* len(str.split()): the number of maximal runs of non-whitespace characters
word_count(s) ==
    Cardinality({n \in Solid(s) : n = 1 \/ IsSpace(s[n - 1])})

\* the upper-case letters the texts use, lower-cased
LowerChar(c) ==
    IF c = "E" THEN "e" ELSE IF c = "S" THEN "s" ELSE IF c = "W" THEN "w" ELSE c

\* str.lower()
lower(s) == [n \in 1 .. Len(s) |-> LowerChar(s[n])]

\* w in s
Contains(s, w) ==
    \E n \in 1 .. (Len(s) - Len(w) + 1) : \A k \in 1 .. Len(w) : s[n + k - 1] = w[k]

\* w * n
Repeat(w, n) == [k \in 1 .. (n * Len(w)) |-> w[((k - 1) % Len(w)) + 1]]

----------------------------------------------------------------------------
(* pdf_extractor.py *)

MaxFileSize == 10 * 1024 * 1024

resume_indicators == {
    <<"e", "x", "p", "e", "r", "i", "e", "n", "c", "e">>,
    <<"e", "d", "u", "c", "a", "t", "i", "o", "n">>,
    <<"s", "k", "i", "l", "l", "s">>,
    <<"w", "o", "r", "k">>,
    <<"e", "m", "p", "l", "o", "y", "m", "e", "n", "t">>,
    <<"u", "n", "i", "v", "e", "r", "s", "i", "t", "y">>,
    <<"c", "o", "l", "l", "e", "g", "e">>,
    <<"d", "e", "g", "r", "e", "e">>,
    <<"p", "r", "o", "j", "e", "c", "t">>,
    <<"i", "n", "t", "e", "r", "n", "s", "h", "i", "p">>,
    <<"s", "o", "f", "t", "w", "a", "r", "e">>,
    <<"t", "e", "c", "h", "n", "i", "c", "a", "l">>,
    <<"p", "r", "o", "g", "r", "a", "m", "m", "i", "n", "g">>,
    <<"d", "e", "v", "e", "l", "o", "p", "m", "e", "n", "t">>}

\* the documents: the most pages a document has
MaxPages == 2

\* headings a page text opens with, each holding one resume indicator
Headings == <<<<"E", "x", "p", "e", "r", "i", "e", "n", "c", "e">>,
    <<"E", "d", "u", "c", "a", "t", "i", "o", "n">>,
    <<"S", "k", "i", "l", "l", "s">>>>

\* page.extract_text() of a page with `ind` headings and `words` further words
PageText(ind, words) ==
    LET RECURSIVE Heads(_)
        Heads(n) == IF n = 0 THEN <<>> ELSE Heads(n - 1) \o Headings[n] \o <<" ">>
    IN Heads(ind) \o Repeat(<<"x", " ">>, words)

\* what page.extract_text() does on a page: raise, return None, or return text
PageOutcomes ==
    {[kind |-> "raise", text |-> <<>>],
     [kind |-> "none", text |-> <<>>],
     [kind |-> "text", text |-> <<" ", "\n", " ">>],
     [kind |-> "text", text |-> PageText(0, 1)],
     [kind |-> "text", text |-> PageText(2, 60)],
     [kind |-> "text", text |-> PageText(3, 100)],
     [kind |-> "text", text |-> PageText(3, 196)],
     [kind |-> "text", text |-> PageText(3, 197)]}

PageSeqs == UNION {[1 .. n -> PageOutcomes] : n \in 0 .. MaxPages}

FileSizes == {1024, MaxFileSize - 1, MaxFileSize, MaxFileSize + 1}

\* an uploaded file: its size, whether PdfReader can read it, its pages
Files ==
    [present : {TRUE}, has_size : {TRUE}, size : FileSizes, readable : {TRUE},
     pages : PageSeqs]
        \cup [present : {TRUE}, has_size : {TRUE}, size : FileSizes,
              readable : {FALSE}, pages : {<<>>}]

\* no file: the uploader is empty, pdf_file is None
NoFile == [present |-> FALSE, has_size |-> FALSE, size |-> 0, readable |-> FALSE,
           pages |-> <<>>]

TooLarge == "PDF file too large. Please upload a file smaller than 10MB."

EmptyOrCorrupted == "PDF file appears to be empty or corrupted."

NoReadableText ==
    "No readable text found in the PDF. Please ensure the PDF contains text (not just images)."

ProcessingFailed == "PDF processing failed: Error reading PDF file: "

PartiallyProcessed == "Successfully processed {successful_pages} out of {len(pdf_reader.pages)} pages."

\* a call of st.error / st.warning / st.success / st.info
St(level, text, n) == [level |-> level, text |-> text, n |-> n]

\* one iteration of the for loop over pdf_reader.pages: a page whose
\* extract_text() raises, or yields nothing but whitespace, is passed over
page_step_counts_blank(before, page) ==
    IF page.kind = "text" /\ Len(page.text) > 0
    THEN [extracted_text |-> before.extracted_text \o page.text \o <<"\n">>,
          successful_pages |-> before.successful_pages + 1]
    ELSE before

page_step(before, page) ==
    IF page.kind = "text" /\ Len(page.text) > 0 /\ strip(page.text) # <<>>
    THEN [extracted_text |-> before.extracted_text \o page.text \o <<"\n">>,
          successful_pages |-> before.successful_pages + 1]
    ELSE before

\* the for loop, after its first n iterations
RECURSIVE PageLoop(_, _)
PageLoop(pages, n) ==
    IF n = 0
    THEN [extracted_text |-> <<>>, successful_pages |-> 0]
    ELSE CHOOSE after \in {page_step(before, pages[n]) :
                              before \in {PageLoop(pages, n - 1)}} : TRUE

Extraction(ret, ui, log, parsed) ==
    [ret |-> ret, ui |-> ui, log |-> log, parsed |-> parsed]

\* the size check refuses the file
size_rejected_inclusive(pdf_file) == pdf_file.has_size /\ pdf_file.size >= MaxFileSize

size_rejected(pdf_file) == pdf_file.has_size /\ pdf_file.size > MaxFileSize

\* the except block around the whole extraction
reading_failed_silently(error_message) ==
    Extraction(NoText, <<>>, error_message, TRUE)

reading_failed(error_message) ==
    Extraction(NoText, <<St("error", ProcessingFailed, 0)>>, error_message, TRUE)

\* the check that the pages gave any text at all
no_text_found_never(extracted_text) == FALSE

no_text_found(extracted_text) == strip(extracted_text) = <<>>

\* what follows the loop: the check of the text, the statistics, the warning
after_loop(pdf_file, loop) ==
    IF no_text_found(loop.extracted_text)
    THEN Extraction(NoText, <<St("error", NoReadableText, 0)>>, "", TRUE)
    ELSE Extraction(Text(loop.extracted_text),
                    IF loop.successful_pages < Len(pdf_file.pages)
                    THEN <<St("warning", PartiallyProcessed, loop.successful_pages)>>
                    ELSE <<>>,
                    "Successfully extracted", TRUE)

extract_text_from_pdf(pdf_file) ==
    IF ~pdf_file.present
    THEN Extraction(NoText, <<>>, "No PDF file provided", FALSE)
    ELSE IF size_rejected(pdf_file)
    THEN Extraction(NoText, <<St("error", TooLarge, 0)>>, "", FALSE)
    ELSE IF ~pdf_file.readable
    THEN reading_failed("Error reading PDF file: ")
    ELSE IF Len(pdf_file.pages) = 0
    THEN Extraction(NoText, <<St("error", EmptyOrCorrupted, 0)>>, "", TRUE)
    ELSE CHOOSE res \in {after_loop(pdf_file, loop) :
                            loop \in {PageLoop(pdf_file.pages, Len(pdf_file.pages))}} : TRUE

DocumentTooShort == "Document too short to be a comprehensive resume"

NotAResume == "Content may not be a resume. Found only {n} resume indicators."

ResumeTooShort ==
    "Resume too short ({word_count} words). Professional resumes typically contain 300-1000 words."

QuiteLong ==
    "Resume is quite long ({word_count} words). Consider condensing for better ATS performance."

ValidationSuccessful == "Resume validation successful. Document contains {word_count} words."

\* the (is_valid, validation_message) pair; n is the number the message shows
Validation(is_valid, message, n) == [is_valid |-> is_valid, message |-> message, n |-> n]

found_indicators(text) ==
    UNION {{w \in resume_indicators : Contains(text_lower, w)} :
              text_lower \in {lower(text)}}

validate_counts_no_minimum(found, words) ==
    IF found < 3
    THEN Validation(FALSE, NotAResume, found)
    ELSE IF words > 2000
    THEN Validation(TRUE, QuiteLong, words)
    ELSE Validation(TRUE, ValidationSuccessful, words)

validate_counts_rejects_long(found, words) ==
    IF found < 3
    THEN Validation(FALSE, NotAResume, found)
    ELSE IF words < 200
    THEN Validation(FALSE, ResumeTooShort, words)
    ELSE IF words > 2000
    THEN Validation(FALSE, QuiteLong, words)
    ELSE Validation(TRUE, ValidationSuccessful, words)

\* the checks on the number of indicators found and on the word count
validate_counts(found, words) ==
    IF found < 3
    THEN Validation(FALSE, NotAResume, found)
    ELSE IF words < 200
    THEN Validation(FALSE, ResumeTooShort, words)
    ELSE IF words > 2000
    THEN Validation(TRUE, QuiteLong, words)
    ELSE Validation(TRUE, ValidationSuccessful, words)

validate_resume_content(text) ==
    IF ~TruthyText(text) \/ Len(strip(text.text)) < 100
    THEN Validation(FALSE, DocumentTooShort, 0)
    ELSE CHOOSE v \in {validate_counts(found, words) :
                          found \in {Cardinality(found_indicators(text.text))},
                          words \in {word_count(text.text)}} : TRUE

NoExtraction == Extraction(NoText, <<>>, "", FALSE)

NoValidation == Validation(FALSE, "", 0)

\* pdf_extractor.extract_text_from_pdf(uploaded_file)
Extract ==
    /\ pdf_pc = "uploaded"
    /\ pdf_res' = extract_text_from_pdf(uploaded_file)
    /\ pdf_pc' = "extracted"
    /\ UNCHANGED <<uploaded_file, pdf_val, not_pdf_vars>>

\* pdf_extractor.validate_resume_content(resume_text) on an extracted text
Validate ==
    /\ pdf_pc = "extracted"
    /\ TruthyText(pdf_res.ret)
    /\ pdf_val' = validate_resume_content(pdf_res.ret)
    /\ pdf_pc' = "validated"
    /\ UNCHANGED <<uploaded_file, pdf_res, not_pdf_vars>>

PDFNext == Extract \/ Validate

----------------------------------------------------------------------------
(* test.py: main *)

\* the keys of config.ATS_KEYWORDS and their display names,
\* role.replace('_', ' ').title()
available_roles == {"data_scientist"}

DisplayName(role) == IF role = "data_scientist" THEN "Data Scientist" ELSE role

AnalysisModes == {"Comprehensive Analysis", "Target Specific Role", "Career Exploration"}

\* what the user can type as a custom role
CustomRoles == {"", "ML Engineer"}

\* the sidebar: the mode, the selectbox, the custom role text input
Sidebars ==
    [analysis_mode : {"Comprehensive Analysis"}, selected_display : {"Custom Role"},
     custom : {""}]
        \cup [analysis_mode : AnalysisModes \ {"Comprehensive Analysis"},
              selected_display : {"Custom Role"}, custom : CustomRoles]
        \cup [analysis_mode : AnalysisModes \ {"Comprehensive Analysis"},
              selected_display : {DisplayName(r) : r \in available_roles},
              custom : {""}]

\* the target_role main derives from the sidebar
target_role_of(sidebar) ==
    IF sidebar.analysis_mode \notin {"Target Specific Role", "Career Exploration"}
    THEN None
    ELSE IF sidebar.selected_display = "Custom Role"
    THEN sidebar.custom
    ELSE IF \E key \in available_roles : DisplayName(key) = sidebar.selected_display
    THEN DisplayName(CHOOSE key \in available_roles :
                        DisplayName(key) = sidebar.selected_display)
    ELSE sidebar.selected_display

\* the files a session uploads
AppFiles ==
    {[present |-> TRUE, has_size |-> TRUE, size |-> MaxFileSize + 1, readable |-> TRUE,
      pages |-> <<[kind |-> "text", text |-> PageText(3, 197)]>>],
     [present |-> TRUE, has_size |-> TRUE, size |-> 1024, readable |-> TRUE,
      pages |-> <<[kind |-> "text", text |-> PageText(0, 1)]>>],
     [present |-> TRUE, has_size |-> TRUE, size |-> 1024, readable |-> TRUE,
      pages |-> <<[kind |-> "text", text |-> PageText(3, 197)]>>]}

\* what the external service does in a session
AppOutcomes ==
    {[kind |-> "ok", content |-> <<"Strong resume.">>],
     [kind |-> "exc", cls |-> "AuthenticationError", text |-> "<empty message>"],
     [kind |-> "exc", cls |-> "IndexError", text |-> MalformedText("IndexError")]}

\* resume_parser.extract_comprehensive_sections: the profile of a text
extract_comprehensive_sections(text) ==
    [word_count |-> word_count(text.text),
     has_education |-> Contains(lower(text.text), <<"e", "d", "u", "c", "a", "t", "i", "o", "n">>)]

NoSections == [word_count |-> 0, has_education |-> FALSE]

Absent == <<"<absent>">>

\* initialize_session_state() on a new session; ai_for is bookkeeping: the
\* resume text from which the stored ai_comprehensive was generated
InitialSession ==
    [analysis_complete |-> FALSE, resume_text |-> NoText, sections |-> NoSections,
     target_role |-> None, analysis_mode |-> None, ai_comprehensive |-> Absent,
     ai_targeted |-> Absent, ai_for |-> NoText]

NoWidgets ==
    [api_key |-> "", analysis_mode |-> "Comprehensive Analysis",
     selected_display |-> "Custom Role", target_role |-> None, analyze_button |-> FALSE]

\* the AI insights tab when it is not shown
NoInsights == [comprehensive |-> "absent", text |-> <<>>, targeted |-> "absent"]

NoRender == [calls |-> <<>>, raised |-> FALSE, ai |-> NoInsights]

\* calls counts the calls of openai.ChatCompletion.create made in this run
NoRun == [ui |-> <<>>, steps |-> <<>>, parse |-> "none", displayed |-> FALSE,
          calls |-> 0, render |-> NoRender]

Did(step) == \E n \in 1 .. Len(run.steps) : run.steps[n] = step

Show(level, text, n) == [run EXCEPT !.ui = Append(@, St(level, text, n))]

\* the script starts again after an interaction: the widgets have the values
\* the user gave them, and main builds a new AIResumeAnalyzer()
Rerun(key, sidebar, file, button) ==
    /\ pc = "idle"
    /\ widgets' = [api_key |-> key, analysis_mode |-> sidebar.analysis_mode,
                   selected_display |-> sidebar.selected_display,
                   target_role |-> target_role_of(sidebar), analyze_button |-> button]
    /\ uploaded_file' = file
    /\ api_key' = [api_key EXCEPT !["A"] = None]
    /\ run' = NoRun
    /\ pc' = "sidebar"
    /\ UNCHANGED <<session_state, openai_api_key, ai_last, ai_prev, pdf_pc, pdf_res, pdf_val, score_vars, prompt_vars, text_vars>>

\* the sidebar block, and the choice of the branch of the analyze button
Sidebar(out) ==
    /\ pc = "sidebar"
    /\ IF Truthy(widgets.api_key)
       THEN /\ api_key' = [api_key EXCEPT !["A"] = widgets.api_key]
            /\ openai_api_key' = widgets.api_key
            /\ \E res \in {validate_api_connection(widgets.api_key, out)} :
                 run' = [run EXCEPT !.calls = @ + res.calls, !.ui =
                            <<IF res.value[1]
                              THEN St("success", <<"API key validated">>, 0)
                              ELSE St("error", res.value[2], 0)>>
                            \o (IF widgets.analyze_button /\ ~uploaded_file.present
                                THEN <<St("error", <<"Please upload a PDF resume first">>, 0)>>
                                ELSE <<>>)]
       ELSE /\ out = CHOOSE o \in AppOutcomes : TRUE
            /\ UNCHANGED <<api_key, openai_api_key>>
            /\ run' = IF widgets.analyze_button /\ ~uploaded_file.present
                      THEN [run EXCEPT !.ui =
                               <<St("info", <<"Add API key for AI insights">>, 0),
                                 St("error", <<"Please upload a PDF resume first">>, 0)>>]
                      ELSE Show("info", <<"Add API key for AI insights">>, 0)
    /\ pc' = IF widgets.analyze_button /\ uploaded_file.present THEN "extract" ELSE "results"
    /\ UNCHANGED <<session_state, widgets, ai_last, ai_prev, pdf_vars, score_vars, prompt_vars, text_vars>>

\* Step 1 of the analysis: extract, and return from main when nothing came
ExtractStep ==
    /\ pc = "extract"
    /\ \E res \in {extract_text_from_pdf(uploaded_file)} :
          /\ pdf_res' = res
          /\ IF ~TruthyText(res.ret)
             THEN /\ run' = [run EXCEPT
                                !.steps = Append(@, "extract"),
                                !.ui = @ \o res.ui \o
                                    <<St("error", <<"Failed to extract text from PDF.">>, 0)>>]
                  /\ pc' = "done"
             ELSE /\ run' = [run EXCEPT !.steps = Append(@, "extract"),
                                        !.ui = @ \o res.ui]
                  /\ pc' = "validate"
    /\ UNCHANGED <<session_state, widgets, uploaded_file, pdf_pc, pdf_val, ai_vars, score_vars, prompt_vars, text_vars>>

\* Step 2: validate the content; the outcome picks a warning or a success
ValidateStep_stop ==
    /\ pc = "validate"
    /\ \E val \in {validate_resume_content(pdf_res.ret)} :
          /\ pdf_val' = val
          /\ run' = [run EXCEPT
                        !.steps = Append(@, "validate"),
                        !.ui = Append(@, St(IF val.is_valid THEN "success" ELSE "warning",
                                            <<val.message>>, val.n))]
          /\ pc' = IF val.is_valid THEN "parse" ELSE "results"
    /\ UNCHANGED <<session_state, widgets, uploaded_file, pdf_pc, pdf_res, ai_vars, score_vars, prompt_vars, text_vars>>

ValidateStep ==
    /\ pc = "validate"
    /\ \E val \in {validate_resume_content(pdf_res.ret)} :
          /\ pdf_val' = val
          /\ run' = [run EXCEPT
                        !.steps = Append(@, "validate"),
                        !.ui = Append(@, St(IF val.is_valid THEN "success" ELSE "warning",
                                            <<val.message>>, val.n))]
    /\ pc' = "parse"
    /\ UNCHANGED <<session_state, widgets, uploaded_file, pdf_pc, pdf_res, ai_vars, score_vars, prompt_vars, text_vars>>

\* the dict given to st.session_state.update
stored_results_without_sections(resume_text, sections, target_role, analysis_mode) ==
    [resume_text |-> resume_text, target_role |-> target_role,
     analysis_mode |-> analysis_mode, analysis_complete |-> TRUE]

stored_results(resume_text, sections, target_role, analysis_mode) ==
    [resume_text |-> resume_text, sections |-> sections, target_role |-> target_role,
     analysis_mode |-> analysis_mode, analysis_complete |-> TRUE]

\* dict.update
update(d, new) == [k \in DOMAIN d |-> IF k \in DOMAIN new THEN new[k] ELSE d[k]]

\* Step 3: parse the sections and store the results in the session state;
\* a parser that raises lands in main's except block
ParseStep(returns) ==
    /\ pc = "parse"
    /\ IF returns
       THEN /\ session_state' =
                  update(session_state,
                         stored_results(pdf_res.ret,
                                        extract_comprehensive_sections(pdf_res.ret),
                                        widgets.target_role, widgets.analysis_mode))
            /\ IF Truthy(widgets.api_key)
               THEN /\ run' = [run EXCEPT !.steps = @ \o <<"parse", "store">>,
                                          !.parse = "returned"]
                    /\ pc' = "ai"
               ELSE /\ run' = [run EXCEPT
                                  !.steps = @ \o <<"parse", "store">>,
                                  !.parse = "returned",
                                  !.ui = Append(@, St("success",
                                            <<"Analysis completed successfully!">>, 0))]
                    /\ pc' = "results"
       ELSE /\ run' = [run EXCEPT
                          !.steps = Append(@, "parse"),
                          !.parse = "raised",
                          !.ui = Append(@, St("error", <<"Analysis failed: ">>, 0))]
            /\ pc' = "results"
            /\ UNCHANGED session_state
    /\ UNCHANGED <<widgets, pdf_vars, ai_vars, score_vars, prompt_vars, text_vars>>

\* the methods AIResumeAnalyzer defines
AIResumeAnalyzerMethods ==
    {"__init__", "set_api_key", "get_comprehensive_ai_analysis",
     "get_improvement_recommendations", "_get_system_prompt",
     "_get_role_specific_system_prompt", "_create_comprehensive_analysis_prompt",
     "_create_role_specific_prompt", "_create_improvement_prompt",
     "validate_api_connection", "get_analysis_cost_estimate"}

\* Step 4: the AI analysis; with a target role main then calls
\* ai_analyzer.get_targeted_role_analysis, and a method the class does not
\* define raises AttributeError into the inner except
AIStep(out) ==
    /\ pc = "ai"
    /\ \E res \in {get_comprehensive_ai_analysis(api_key["A"], TRUE, out)} :
          /\ session_state' =
                [session_state EXCEPT
                    !.ai_comprehensive = res.value,
                    !.ai_for = pdf_res.ret,
                    !.ai_targeted =
                        IF /\ Truthy(widgets.target_role)
                           /\ "get_targeted_role_analysis" \in AIResumeAnalyzerMethods
                        THEN res.value ELSE @]
          /\ run' = [run EXCEPT
                        !.steps = Append(@, "ai"),
                        !.calls = @ + res.calls,
                        !.ui = @ \o (IF /\ Truthy(widgets.target_role)
                                        /\ "get_targeted_role_analysis"
                                              \notin AIResumeAnalyzerMethods
                                     THEN <<St("warning",
                                               <<"AI analysis encountered an issue: ">>, 0)>>
                                     ELSE <<>>)
                                 \o <<St("success",
                                         <<"Analysis completed successfully!">>, 0)>>]
    /\ pc' = "results"
    /\ UNCHANGED <<widgets, pdf_vars, ai_vars, score_vars, prompt_vars, text_vars>>

\* the engines behind the sections of the results, and what makes one of
\* them fail for a request
Engine(section) ==
    CASE section = "score" -> "scoring"
      [] section \in {"strengths", "weaknesses", "plan"} -> "rules"
      [] section = "match" -> "matcher"

Faults == {"none", "scoring", "rules", "matcher"}

\* strength_weakness_analyzer.analyze_comprehensive_strengths_weaknesses:
\* a battery of rules over the text, the profile and the target role
analyze_comprehensive_strengths_weaknesses(resume_text, sections, target_role) ==
    <<(IF sections.has_education THEN <<"Education documented">> ELSE <<>>)
         \o (IF sections.word_count >= 200 THEN <<"Substantial content">> ELSE <<>>),
      (IF sections.word_count < 200
       THEN <<[weakness |-> "Resume too brief", fix_priority |-> <<"CRITICAL">>]>>
       ELSE <<>>)
         \o (IF ~sections.has_education
             THEN <<[weakness |-> "Education missing", fix_priority |-> <<"HIGH">>]>>
             ELSE <<>>)
         \o (IF Truthy(target_role)
             THEN <<[weakness |-> target_role,
                     fix_priority |-> <<"MEDIUM", " - role skills">>]>>
             ELSE <<>>)
         \o (IF sections.has_education
             THEN <<[weakness |-> "Education lacks detail",
                     fix_priority |-> <<"LOW", " - optional polish">>]>>
             ELSE <<>>)>>

\* the arguments display_analysis_results hands to the code of a section
section_args_keyed(section, resume_text, sections, target_role, key) ==
    <<resume_text, sections, IF Truthy(key) THEN target_role ELSE None>>

section_args_plan_norole(section, resume_text, sections, target_role, key) ==
    <<resume_text, sections, IF section = "plan" THEN None ELSE target_role>>

section_args(section, resume_text, sections, target_role, key) ==
    <<resume_text, sections, target_role>>

\* str.startswith on a text of chunks
startswith(s, prefix) == Len(s) > 0 /\ s[1] = prefix

\* the tiers display_improvement_plan groups the weaknesses into
display_improvement_plan(weaknesses_detailed) ==
    [critical_fixes |->
        SelectSeq(weaknesses_detailed, LAMBDA w : startswith(w.fix_priority, "CRITICAL")),
     high_priority |->
        SelectSeq(weaknesses_detailed, LAMBDA w : startswith(w.fix_priority, "HIGH")),
     medium_priority |->
        SelectSeq(weaknesses_detailed, LAMBDA w : startswith(w.fix_priority, "MEDIUM"))]

\* one section: its engine is called and either returns or raises
section_call(section, args, fault) ==
    [section |-> section, args |-> args, returned |-> Engine(section) # fault,
     lists |-> IF Engine(section) = "rules" /\ fault # "rules"
               THEN analyze_comprehensive_strengths_weaknesses(args[1], args[2], args[3])
               ELSE <<>>,
     plan |-> IF section = "plan" /\ fault # "rules"
              THEN display_improvement_plan(
                       analyze_comprehensive_strengths_weaknesses(
                           args[1], args[2], args[3])[2])
              ELSE display_improvement_plan(<<>>)]

\* display_ai_insights reads st.session_state
display_ai_insights(target_role) ==
    [comprehensive |->
        IF session_state.ai_comprehensive = Absent THEN "absent"
        ELSE IF /\ Len(session_state.ai_comprehensive) > 0
                /\ ~startswith(session_state.ai_comprehensive, "AI analysis")
        THEN "analysis" ELSE "warning",
     text |-> IF session_state.ai_comprehensive = Absent THEN <<>>
              ELSE session_state.ai_comprehensive,
     targeted |->
        IF ~Truthy(target_role) \/ session_state.ai_targeted = Absent THEN "absent"
        ELSE IF /\ Len(session_state.ai_targeted) > 0
                /\ ~startswith(session_state.ai_targeted, "Role-specific")
        THEN "analysis" ELSE "warning"]

\* the sections in the order display_analysis_results runs them; the first
\* one that raises ends the function
RenderOrder == <<"score", "strengths", "weaknesses", "plan", "match">>

RECURSIVE render_from(_, _, _, _, _, _)
render_from(n, resume_text, sections, target_role, key, fault) ==
    IF n > Len(RenderOrder) THEN <<>>
    ELSE LET c == section_call(RenderOrder[n],
                               section_args(RenderOrder[n], resume_text, sections,
                                            target_role, key),
                               fault)
         IN IF c.returned
            THEN <<c>> \o render_from(n + 1, resume_text, sections, target_role, key, fault)
            ELSE <<c>>

display_analysis_results(resume_text, sections, target_role, key, fault) ==
    LET calls == render_from(1, resume_text, sections, target_role, key, fault)
        raised == ~calls[Len(calls)].returned
    IN [calls |-> calls, raised |-> raised,
        ai |-> IF ~raised /\ Truthy(key) THEN display_ai_insights(target_role)
               ELSE NoInsights]

\* the results panel: the analysis results once an analysis is complete,
\* the preview before; an exception leaves main for the handler of __main__
Results(fault) ==
    /\ pc = "results"
    /\ IF session_state.analysis_complete
       THEN \E r \in {display_analysis_results(session_state.resume_text,
                                               session_state.sections,
                                               session_state.target_role,
                                               widgets.api_key, fault)} :
               run' = [run EXCEPT
                          !.displayed = TRUE,
                          !.render = r,
                          !.ui = @ \o (IF r.raised
                                       THEN <<St("error", <<"Application Error">>, 0)>>
                                       ELSE <<>>)]
       ELSE /\ fault = "none"
            /\ run' = [run EXCEPT !.displayed = FALSE]
    /\ pc' = "done"
    /\ UNCHANGED <<session_state, widgets, pdf_vars, ai_vars, score_vars, prompt_vars, text_vars>>

\* the script has ended; the page waits for the next interaction
Wait ==
    /\ pc = "done"
    /\ pc' = "idle"
    /\ run' = NoRun
    /\ widgets' = NoWidgets
    /\ uploaded_file' = NoFile
    /\ pdf_res' = NoExtraction
    /\ pdf_val' = NoValidation
    /\ UNCHANGED <<session_state, pdf_pc, ai_vars, score_vars, prompt_vars, text_vars>>

AppNext ==
    \/ \E key \in {"", "sk-1"}, sidebar \in Sidebars, file \in AppFiles \cup {NoFile},
          button \in BOOLEAN : Rerun(key, sidebar, file, button)
    \/ \E out \in AppOutcomes : Sidebar(out)
    \/ ExtractStep
    \/ ValidateStep
    \/ \E returns \in BOOLEAN : ParseStep(returns)
    \/ \E out \in AppOutcomes : AIStep(out)
    \/ \E fault \in Faults : Results(fault)
    \/ Wait

----------------------------------------------------------------------------
(* test.py: the score displays.  Scores are counted in tenths of a point. *)

Categories ==
    {"contact_information", "technical_skills", "experience_quality",
     "quantified_achievements", "content_optimization"}

\* the maximum of each category: 15, 30, 25, 20 and 10 points
CategoryMax ==
    [contact_information |-> 150, technical_skills |-> 300, experience_quality |-> 250,
     quantified_achievements |-> 200, content_optimization |-> 100]

\* what a sub-scorer can compute before its score is clamped
SubScores ==
    [contact_information : {0, 149, 150, 160},
     technical_skills : {-5, 0, 150, 300},
     experience_quality : {0, 150, 250},
     quantified_achievements : {0, 100, 200},
     content_optimization : {0, 50, 100}]

RECURSIVE Sum(_, _)
Sum(f, S) == IF S = {} THEN 0 ELSE LET c == CHOOSE x \in S : TRUE
                                   IN f[c] + Sum(f, S \ {c})

\* x / y * 100 as an exact fraction
Percentage(x, y) == [num |-> x * 100, den |-> y]

AtLeast(p, threshold) == p.num >= threshold * p.den

AtMost(p, threshold) == p.num <= threshold * p.den

\* the band display_score_overview announces
Band_exclusive(p) ==
    IF AtLeast(p, 80) THEN "Excellent"
    ELSE IF AtLeast(p, 70) THEN "Very Good"
    ELSE IF AtLeast(p, 60) THEN "Good"
    ELSE IF ~AtMost(p, 45) THEN "Fair"
    ELSE "Needs Work"

Band(p) ==
    IF AtLeast(p, 80) THEN "Excellent"
    ELSE IF AtLeast(p, 70) THEN "Very Good"
    ELSE IF AtLeast(p, 60) THEN "Good"
    ELSE IF AtLeast(p, 45) THEN "Fair"
    ELSE "Needs Work"

Clamp(x, lo, hi) == IF x < lo THEN lo ELSE IF x > hi THEN hi ELSE x

\* scoring_engine.calculate_comprehensive_ats_score: every category score is
\* clamped to [0, max], the total is their sum, the maximum the sum of the maxima
calculate_comprehensive_ats_score(sub) ==
    LET clamped == [c \in Categories |-> Clamp(sub[c], 0, CategoryMax[c])]
    IN [total_score |-> Sum(clamped, Categories),
        max_score |-> Sum(CategoryMax, Categories),
        score_breakdown |->
            [c \in Categories \cup {"overall_assessment"} |->
                IF c = "overall_assessment"
                THEN [level |-> Band(Percentage(Sum(clamped, Categories),
                                                Sum(CategoryMax, Categories)))]
                ELSE [score |-> clamped[c], max |-> CategoryMax[c]]]]

\* the metric and the band display_score_overview shows
display_score_overview(total_score, max_score, score_breakdown) ==
    [metric |-> [value |-> Percentage(total_score, max_score),
                 delta |-> <<total_score, max_score>>],
     band |-> Band(Percentage(total_score, max_score))]

\* the percentage of one category in display_detailed_scoring
category_percentage_inverted(data) == Percentage(data.max, data.score)

category_percentage(data) == Percentage(data.score, data.max)

\* the line and the progress bar display_detailed_scoring shows per category
display_detailed_scoring(score_breakdown) ==
    [category \in DOMAIN score_breakdown \ {"overall_assessment"} |->
        [score |-> score_breakdown[category].score,
         max |-> score_breakdown[category].max,
         percentage |-> category_percentage(score_breakdown[category])]]

NoScoring == [total_score |-> 0, max_score |-> 0, score_breakdown |-> <<>>]

NoShown == [overview |-> <<>>, detailed |-> <<>>]

\* display_analysis_results: calculate the scores
Calculate ==
    /\ score_pc = "profile"
    /\ scoring' = calculate_comprehensive_ats_score(sub_scores)
    /\ score_pc' = "scored"
    /\ UNCHANGED <<sub_scores, shown, ai_vars, pdf_vars, app_vars, prompt_vars, text_vars>>

\* display_analysis_results: the score overview
ShowOverview ==
    /\ score_pc = "scored"
    /\ shown' = [shown EXCEPT !.overview =
                    display_score_overview(scoring.total_score, scoring.max_score,
                                           scoring.score_breakdown)]
    /\ score_pc' = "overview"
    /\ UNCHANGED <<sub_scores, scoring, ai_vars, pdf_vars, app_vars, prompt_vars, text_vars>>

\* display_analysis_results: the detailed scoring tab
ShowDetailed ==
    /\ score_pc = "overview"
    /\ shown' = [shown EXCEPT !.detailed = display_detailed_scoring(scoring.score_breakdown)]
    /\ score_pc' = "detailed"
    /\ UNCHANGED <<sub_scores, scoring, ai_vars, pdf_vars, app_vars, prompt_vars, text_vars>>

ScoreNext == Calculate \/ ShowOverview \/ ShowDetailed

----------------------------------------------------------------------------------------------------------------------------------------
(* ai_analyzer.py: the prompts.  A resume text is a sequence of characters,
   the fixed parts of a prompt are chunks. *)

\* the character budgets of the two prompts and the number of weaknesses
\* the improvement prompt summarises
ComprehensiveBudget == 4000

ImprovementBudget == 3000

TopWeaknesses == 5

\* the longest weaknesses_analysis considered
MaxWeaknesses == 6

\* s[:n]
Take(s, n) == SubSeq(s, 1, IF Len(s) < n THEN Len(s) ELSE n)

\* dict.get(key, default)
get(d, key, default) == IF key \in DOMAIN d THEN d[key] ELSE default

ResumeChars == <<"r", "s", "t">>

ResumeOfLength(n) == [i \in 1 .. n |-> ResumeChars[(i % 3) + 1]]

ResumeLengths ==
    {0, 1, ImprovementBudget - 1, ImprovementBudget, ImprovementBudget + 1,
     ComprehensiveBudget - 1, ComprehensiveBudget, ComprehensiveBudget + 1}

\* weakness records, some without 'weakness' or 'why_problematic'
WeaknessPool ==
    <<[weakness |-> "No metrics", why_problematic |-> "Impact unclear"],
      [weakness |-> "No summary", fix_priority |-> "HIGH"],
      [why_problematic |-> "ATS cannot parse", fix_priority |-> "CRITICAL"],
      [fix_priority |-> "LOW"],
      [weakness |-> "Few skills", why_problematic |-> "Low keyword match"],
      [weakness |-> "Gaps", why_problematic |-> "Unexplained"],
      [weakness |-> "Typos", why_problematic |-> "Careless"]>>

WeaknessLists ==
    {[i \in 1 .. n |-> WeaknessPool[((i + k) % Len(WeaknessPool)) + 1]] :
        n \in 0 .. MaxWeaknesses, k \in 1 .. Len(WeaknessPool)}

PromptInputs ==
    [resume_text : {ResumeOfLength(n) : n \in ResumeLengths},
     target_role : {None, "", "Data Scientist"},
     weaknesses_analysis : {<<>>}]
        \cup [resume_text : {ResumeOfLength(n) : n \in {1, ImprovementBudget + 1}},
              target_role : {None},
              weaknesses_analysis : WeaknessLists]

create_comprehensive_analysis_prompt(resume_text, target_role) ==
    <<"Analyze this resume comprehensively and provide detailed, actionable insights.",
      "\n", "\n", "RESUME CONTENT:", "\n">>
        \o Take(resume_text, ComprehensiveBudget)
        \o (IF Truthy(target_role) THEN <<"\n", "TARGET ROLE: ", target_role>> ELSE <<>>)
        \o <<"\n", "\n", "Provide detailed analysis in the following structure:">>

\* "\n".join(lines)
RECURSIVE join(_)
join(lines) ==
    IF Len(lines) = 0 THEN <<>>
    ELSE IF Len(lines) = 1 THEN lines[1]
    ELSE lines[1] \o <<"\n">> \o join(Tail(lines))

weakness_text(weakness) ==
    <<"- ", get(weakness, "weakness", "Unknown weakness"), ": ",
      get(weakness, "why_problematic", "Impacts job prospects")>>

create_improvement_prompt_all(resume_text, weaknesses_analysis) ==
    <<"Based on this resume and identified weaknesses, provide a comprehensive improvement action plan.",
      "\n", "\n", "RESUME CONTENT:", "\n">>
        \o Take(resume_text, ImprovementBudget)
        \o <<"\n", "\n", "KEY WEAKNESSES IDENTIFIED:", "\n">>
        \o join([n \in 1 .. Len(weaknesses_analysis) |->
                    weakness_text(weaknesses_analysis[n])])
        \o <<"\n", "\n", "Provide detailed improvement recommendations:">>

create_improvement_prompt(resume_text, weaknesses_analysis) ==
    <<"Based on this resume and identified weaknesses, provide a comprehensive improvement action plan.",
      "\n", "\n", "RESUME CONTENT:", "\n">>
        \o Take(resume_text, ImprovementBudget)
        \o <<"\n", "\n", "KEY WEAKNESSES IDENTIFIED:", "\n">>
        \o join([n \in 1 .. Len(Take(weaknesses_analysis, TopWeaknesses)) |->
                    weakness_text(weaknesses_analysis[n])])
        \o <<"\n", "\n", "Provide detailed improvement recommendations:">>

NoPromptArgs == [resume_text |-> <<>>, target_role |-> None, weaknesses_analysis |-> <<>>]

NoPrompt == [kind |-> "none", text |-> <<>>]

CreateComprehensivePrompt ==
    /\ prompt.kind = "none"
    /\ prompt' = [kind |-> "comprehensive",
                  text |-> create_comprehensive_analysis_prompt(
                               prompt_args.resume_text, prompt_args.target_role)]
    /\ UNCHANGED <<prompt_args, ai_vars, pdf_vars, app_vars, score_vars, text_vars>>

CreateImprovementPrompt ==
    /\ prompt.kind = "none"
    /\ prompt' = [kind |-> "improvement",
                  text |-> create_improvement_prompt(
                               prompt_args.resume_text, prompt_args.weaknesses_analysis)]
    /\ UNCHANGED <<prompt_args, ai_vars, pdf_vars, app_vars, score_vars, text_vars>>

PromptNext == CreateComprehensivePrompt \/ CreateImprovementPrompt

----------------------------------------------------------------------------
(* pdf_extractor.py: the text functions called on given texts *)

\* the numbers of further words of the texts given to validate_resume_content
ValidationWords == {0, 1, 45, 46, 47, 48, 49, 50, 51, 60, 195, 196, 197, 198, 1997, 1998}

\* a text with up to three section headings, with or without a character or
\* whitespace in front of it
ValidationTexts ==
    {lead \o PageText(ind, words) :
        lead \in {<<>>, <<"x">>, <<" ", "\n">>}, ind \in 0 .. 3, words \in ValidationWords}

\* the argument of validate_resume_content: None, "" or a text
ValidationInputs == {NoText} \cup {Text(t) : t \in ValidationTexts \cup {<<>>}}

\* is_valid, message = validate_resume_content(text)
ValidateContent ==
    /\ text_res = <<>>
    /\ text_res' = <<validate_resume_content(text_arg)>>
    /\ UNCHANGED <<text_arg, ai_vars, pdf_vars, app_vars, score_vars, prompt_vars>>

\* the longest text given to preprocess_text
MaxTextLen == 5

\* the whitespace characters, a lower-case and an upper-case letter, a sentence terminator
TextAlphabet == {" ", "\n", "\t", "a", "A", "."}

\* the argument of preprocess_text: None or a text, "" included
PreprocessInputs ==
    {NoText} \cup {Text(t) : t \in UNION {[1 .. n -> TextAlphabet] : n \in 0 .. MaxTextLen}}

\* [.!?] and [A-Z] of the paragraph pattern
Terminators == {".", "!", "?"}

Uppercase == {"A"}

\* str.split(sep) for a separator of one character
RECURSIVE split(_, _)
split(s, sep) ==
    IF \A n \in 1 .. Len(s) : s[n] # sep
    THEN <<s>>
    ELSE CHOOSE lines \in
             {<<SubSeq(s, 1, n - 1)>> \o split(SubSeq(s, n + 1, Len(s)), sep) :
                 n \in {CHOOSE m \in 1 .. Len(s) :
                            s[m] = sep /\ \A k \in 1 .. (m - 1) : s[k] # sep}} : TRUE

\* the loop over the lines: each is stripped, the empty ones are left out
cleaned_lines_unstripped(text) ==
    SelectSeq(split(text, "\n"), LAMBDA line : line # <<>>)

cleaned_lines(text) ==
    SelectSeq([n \in DOMAIN split(text, "\n") |-> strip(split(text, "\n")[n])],
              LAMBDA line : line # <<>>)

\* the length of the whitespace run at the head of s
RECURSIVE SpaceRun(_)
SpaceRun(s) ==
    IF s = <<>> \/ ~IsSpace(s[1]) THEN 0 ELSE 1 + SpaceRun(Tail(s))

\* re.sub(r'\s+', ' ', s)
RECURSIVE collapse_whitespace(_)
collapse_whitespace(s) ==
    IF s = <<>> THEN <<>>
    ELSE IF IsSpace(s[1])
    THEN <<" ">> \o collapse_whitespace(SubSeq(s, SpaceRun(s) + 1, Len(s)))
    ELSE <<s[1]>> \o collapse_whitespace(Tail(s))

\* re.sub(r'([.!?])\s+([A-Z])', r'\1\n\n\2', s): the matches are taken from
\* left to right and do not overlap
RECURSIVE restore_paragraphs(_)
restore_paragraphs(s) ==
    IF s = <<>> THEN <<>>
    ELSE IF /\ s[1] \in Terminators
            /\ SpaceRun(Tail(s)) > 0
            /\ Len(s) >= SpaceRun(Tail(s)) + 2
            /\ s[SpaceRun(Tail(s)) + 2] \in Uppercase
    THEN <<s[1], "\n", "\n", s[SpaceRun(Tail(s)) + 2]>>
             \o restore_paragraphs(SubSeq(s, SpaceRun(Tail(s)) + 3, Len(s)))
    ELSE <<s[1]>> \o restore_paragraphs(Tail(s))

preprocess_text(text) ==
    IF ~TruthyText(text)
    THEN <<>>
    ELSE restore_paragraphs(collapse_whitespace(join(cleaned_lines(text.text))))

\* preprocess_text called on the text, then on what it returned
Preprocess ==
    /\ Len(text_res) < 2
    /\ text_res' = Append(text_res,
                          preprocess_text(IF text_res = <<>>
                                          THEN text_arg
                                          ELSE Text(text_res[Len(text_res)])))
    /\ UNCHANGED <<text_arg, ai_vars, pdf_vars, app_vars, score_vars, prompt_vars>>

----------------
(* Specifications *)

\* calls through the text-generation boundary, on freshly built analyzers
AIInit ==
    /\ api_key = [i \in Instances |-> None]
    /\ openai_api_key = None
    /\ ai_last = NoCall
    /\ ai_prev = NoPrev
    /\ uploaded_file = NoFile
    /\ pdf_pc = "idle"
    /\ pdf_res = NoExtraction
    /\ pdf_val = NoValidation
    /\ session_state = InitialSession
    /\ widgets = NoWidgets
    /\ pc = "idle"
    /\ run = NoRun
    /\ sub_scores = [c \in Categories |-> 0]
    /\ score_pc = "idle"
    /\ scoring = NoScoring
    /\ shown = NoShown
    /\ prompt_args = NoPromptArgs
    /\ prompt = NoPrompt
    /\ text_arg = NoText
    /\ text_res = <<>>

SpecAI == AIInit /\ [][AINext]_vars

\* extraction and validation of one uploaded document
PDFInit ==
    /\ uploaded_file \in Files
    /\ pdf_pc = "uploaded"
    /\ pdf_res = NoExtraction
    /\ pdf_val = NoValidation
    /\ api_key = [i \in Instances |-> None]
    /\ openai_api_key = None
    /\ ai_last = NoCall
    /\ ai_prev = NoPrev
    /\ session_state = InitialSession
    /\ widgets = NoWidgets
    /\ pc = "idle"
    /\ run = NoRun
    /\ sub_scores = [c \in Categories |-> 0]
    /\ score_pc = "idle"
    /\ scoring = NoScoring
    /\ shown = NoShown
    /\ prompt_args = NoPromptArgs
    /\ prompt = NoPrompt
    /\ text_arg = NoText
    /\ text_res = <<>>

SpecPDF == PDFInit /\ [][PDFNext]_vars

\* the runs of the script in one browser session
AppInit ==
    /\ session_state = InitialSession
    /\ widgets = NoWidgets
    /\ pc = "idle"
    /\ run = NoRun
    /\ uploaded_file = NoFile
    /\ pdf_pc = "idle"
    /\ pdf_res = NoExtraction
    /\ pdf_val = NoValidation
    /\ api_key = [i \in Instances |-> None]
    /\ openai_api_key = None
    /\ ai_last = NoCall
    /\ ai_prev = NoPrev
    /\ sub_scores = [c \in Categories |-> 0]
    /\ score_pc = "idle"
    /\ scoring = NoScoring
    /\ shown = NoShown
    /\ prompt_args = NoPromptArgs
    /\ prompt = NoPrompt
    /\ text_arg = NoText
    /\ text_res = <<>>

SpecApp == AppInit /\ [][AppNext]_vars

\* the scores of one profile, calculated and displayed
ScoreInit ==
    /\ sub_scores \in SubScores
    /\ score_pc = "profile"
    /\ scoring = NoScoring
    /\ shown = NoShown
    /\ session_state = InitialSession
    /\ widgets = NoWidgets
    /\ pc = "idle"
    /\ run = NoRun
    /\ uploaded_file = NoFile
    /\ pdf_pc = "idle"
    /\ pdf_res = NoExtraction
    /\ pdf_val = NoValidation
    /\ api_key = [i \in Instances |-> None]
    /\ openai_api_key = None
    /\ ai_last = NoCall
    /\ ai_prev = NoPrev
    /\ prompt_args = NoPromptArgs
    /\ prompt = NoPrompt
    /\ text_arg = NoText
    /\ text_res = <<>>

SpecScore == ScoreInit /\ [][ScoreNext]_vars

\* validate_resume_content called on given texts
ValidateInit ==
    /\ text_arg \in ValidationInputs
    /\ text_res = <<>>
    /\ uploaded_file = NoFile
    /\ pdf_pc = "idle"
    /\ pdf_res = NoExtraction
    /\ pdf_val = NoValidation
    /\ api_key = [i \in Instances |-> None]
    /\ openai_api_key = None
    /\ ai_last = NoCall
    /\ ai_prev = NoPrev
    /\ session_state = InitialSession
    /\ widgets = NoWidgets
    /\ pc = "idle"
    /\ run = NoRun
    /\ sub_scores = [c \in Categories |-> 0]
    /\ score_pc = "idle"
    /\ scoring = NoScoring
    /\ shown = NoShown
    /\ prompt_args = NoPromptArgs
    /\ prompt = NoPrompt

SpecValidate == ValidateInit /\ [][ValidateContent]_vars

\* preprocess_text called on given texts
PreprocessInit ==
    /\ text_arg \in PreprocessInputs
    /\ text_res = <<>>
    /\ uploaded_file = NoFile
    /\ pdf_pc = "idle"
    /\ pdf_res = NoExtraction
    /\ pdf_val = NoValidation
    /\ api_key = [i \in Instances |-> None]
    /\ openai_api_key = None
    /\ ai_last = NoCall
    /\ ai_prev = NoPrev
    /\ session_state = InitialSession
    /\ widgets = NoWidgets
    /\ pc = "idle"
    /\ run = NoRun
    /\ sub_scores = [c \in Categories |-> 0]
    /\ score_pc = "idle"
    /\ scoring = NoScoring
    /\ shown = NoShown
    /\ prompt_args = NoPromptArgs
    /\ prompt = NoPrompt

SpecPreprocess == PreprocessInit /\ [][Preprocess]_vars

\* the prompts built from given arguments
PromptInit ==
    /\ prompt_args \in PromptInputs
    /\ prompt = NoPrompt
    /\ text_arg = NoText
    /\ text_res = <<>>
    /\ sub_scores = [c \in Categories |-> 0]
    /\ score_pc = "idle"
    /\ scoring = NoScoring
    /\ shown = NoShown
    /\ session_state = InitialSession
    /\ widgets = NoWidgets
    /\ pc = "idle"
    /\ run = NoRun
    /\ uploaded_file = NoFile
    /\ pdf_pc = "idle"
    /\ pdf_res = NoExtraction
    /\ pdf_val = NoValidation
    /\ api_key = [i \in Instances |-> None]
    /\ openai_api_key = None
    /\ ai_last = NoCall
    /\ ai_prev = NoPrev

SpecPrompt == PromptInit /\ [][PromptNext]_vars

----------------------------------------------------------------------------
(* Claims about the text-generation boundary *)

IsStr(v) == DOMAIN v = 1 .. Len(v) /\ \A n \in DOMAIN v : v[n] \in STRING

\* C1: without a configured API key, get_comprehensive_ai_analysis and
\* get_improvement_recommendations return their fixed "requires API key"
\* message whatever the arguments, and make no external call.
C1_NoKeyFixedMessage ==
    /\ (ai_last.op = "comprehensive" /\ ~Truthy(ai_last.key))
          => ai_last.res = Returned(NoKeyComprehensive, 0)
    /\ (ai_last.op = "improvement" /\ ~Truthy(ai_last.key))
          => ai_last.res = Returned(NoKeyImprovement, 0)

C1_Witness ==
    /\ ai_last.op = "comprehensive"
    /\ ai_last.key = ""
    /\ ~ai_last.arg_ok
    /\ ai_prev.op = "improvement"
    /\ ai_prev.value = NoKeyImprovement

\* C2: get_comprehensive_ai_analysis and get_improvement_recommendations
\* never raise: whatever the arguments and the outcome of the external call,
\* they end by returning a string.
C2_NeverRaises ==
    ai_last.op \in {"comprehensive", "improvement"}
        => ai_last.res.kind = "return" /\ IsStr(ai_last.res.value)

C2_Witness ==
    /\ ai_last.op = "comprehensive"
    /\ ai_last.out.kind = "exc"
    /\ ai_last.out.cls \in MalformedExceptions
    /\ ai_last.res.kind = "return"

\* C3: a failed text-generation call is converted to a string that carries
\* the failure category: two failures of one entry point with different
\* categories (authentication, rate-limit, generic) give different strings.
C3_CategoryCarried ==
    (/\ ai_last.op = ai_prev.op
     /\ FailureOf(ai_last.out) # "none"
     /\ ai_prev.failure # "none"
     /\ FailureOf(ai_last.out) # ai_prev.failure)
        => ai_last.res.value # ai_prev.value

------------------------------------------------------------\* the characters of the resume text that a prompt holds, in order
ResumePart(p) == SelectSeq(p, LAMBDA c : \E i \in DOMAIN ResumeChars : ResumeChars[i] = c)

\* the part of an improvement prompt under "KEY WEAKNESSES IDENTIFIED:"
WeaknessBlock(p) ==
    LET a == CHOOSE n \in DOMAIN p : p[n] = "KEY WEAKNESSES IDENTIFIED:"
    IN SubSeq(p, a + 2, Len(p) - 3)

RECURSIVE SplitLines(_)
SplitLines(s) ==
    IF \A n \in DOMAIN s : s[n] # "\n" THEN <<s>>
    ELSE LET i == CHOOSE n \in DOMAIN s : s[n] = "\n" /\ \A m \in 1 .. n - 1 : s[m] # "\n"
         IN <<SubSeq(s, 1, i - 1)>> \o SplitLines(SubSeq(s, i + 1, Len(s)))

SummaryLines(p) == IF WeaknessBlock(p) = <<>> THEN <<>> ELSE SplitLines(WeaknessBlock(p))

\* C14: a prompt holds at most a fixed prefix of the resume text (the first
\* 4000 characters in the comprehensive prompt, the first 3000 in the
\* improvement prompt), and the improvement prompt summarises the first 5
\* weakness records of the given list, in order, one line each, with a default
\* text where a record lacks 'weakness' or 'why_problematic'.
C14_PromptBudget ==
    /\ prompt.kind = "comprehensive"
          => /\ Len(ResumePart(prompt.text)) <= 4000
             /\ ResumePart(prompt.text)
                   = SubSeq(prompt_args.resume_text, 1, Len(ResumePart(prompt.text)))
             /\ Len(prompt_args.resume_text) >= 4000 => Len(ResumePart(prompt.text)) = 4000
    /\ prompt.kind = "improvement"
          => /\ Len(ResumePart(prompt.text)) <= 3000
             /\ ResumePart(prompt.text)
                   = SubSeq(prompt_args.resume_text, 1, Len(ResumePart(prompt.text)))
             /\ Len(prompt_args.resume_text) >= 3000 => Len(ResumePart(prompt.text)) = 3000
             /\ Len(SummaryLines(prompt.text))
                   = (IF Len(prompt_args.weaknesses_analysis) < 5
                      THEN Len(prompt_args.weaknesses_analysis) ELSE 5)
             /\ \A k \in DOMAIN SummaryLines(prompt.text) :
                   SummaryLines(prompt.text)[k] =
                       <<"- ",
                         IF "weakness" \in DOMAIN prompt_args.weaknesses_analysis[k]
                         THEN prompt_args.weaknesses_analysis[k].weakness
                         ELSE "Unknown weakness",
                         ": ",
                         IF "why_problematic" \in DOMAIN prompt_args.weaknesses_analysis[k]
                         THEN prompt_args.weaknesses_analysis[k].why_problematic
                         ELSE "Impacts job prospects">>

C14_Witness ==
    /\ prompt.kind = "improvement"
    /\ Len(prompt_args.resume_text) = 3001
    /\ Len(prompt_args.weaknesses_analysis) = 6
    /\ "weakness" \notin DOMAIN prompt_args.weaknesses_analysis[2]
    /\ Len(SummaryLines(prompt.text)) = 5
    /\ SummaryLines(prompt.text)[2][2] = "Unknown weakness"

\* C15: validate_api_connection never raises and returns an (is_valid,
\* message) pair: without a key (False, "No API key provided") and no external
\* call; with a key is_valid is True exactly when the test call succeeds, and
\* a failed test call gives False with one of the invalid-key, rate-limit,
\* API-error and connection-error messages.
ValidateFailureMessages ==
    {"Invalid API key - please check your OpenAI API key",
     "API rate limit exceeded - please try again later",
     "API error: ", "Connection error: "}

C15_ValidatePair ==
    ai_last.op = "validate"
        => /\ ai_last.res.kind = "return"
           /\ Len(ai_last.res.value) = 2
           /\ ai_last.res.value[1] \in BOOLEAN
           /\ IsStr(ai_last.res.value[2])
           /\ IF ~Truthy(ai_last.key)
              THEN /\ ai_last.res.value = <<FALSE, <<"No API key provided">>>>
                   /\ ai_last.res.calls = 0
              ELSE /\ ai_last.res.calls = 1
                   /\ ai_last.res.value[1] <=> ~CallFailed(ai_last.out)
                   /\ CallFailed(ai_last.out)
                         => ai_last.res.value[2][1] \in ValidateFailureMessages

C15_Witness ==
    /\ ai_last.op = "validate"
    /\ ai_last.key = "sk-1"
    /\ ai_last.out.kind = "exc"
    /\ ai_last.out.cls = "APIConnectionError"
    /\ ai_last.res.value = <<FALSE, <<"Connection error: ", "Request failed">>>>
    /\ ai_prev.op = "validate"
    /\ ai_prev.value = <<FALSE, <<"No API key provided">>>>

\* C16: an external call made through an analyzer is authenticated with the
\* api_key configured on that analyzer, whatever was constructed or set on
\* other analyzers in between.  (openai.ChatCompletion.create is given no
\* key: the call is authenticated with the module-global openai.api_key.)
C16_OwnCredential ==
    [][(<<ai_last, ai_prev>>' # <<ai_last, ai_prev>> /\ ai_last'.res.calls > 0)
          => openai_api_key = ai_last'.key]_vars

----------------
(* Claims about document extraction and validation *)

Extracted == pdf_pc \in {"extracted", "validated"}

\* the pages of a file that yield non-blank text
TextPages(f) ==
    {n \in 1 .. Len(f.pages) :
        f.pages[n].kind = "text" /\ strip(f.pages[n].text) # <<>>}

\* C4: extract_text_from_pdf never returns an empty or whitespace-only
\* string: the result is None or has a non-whitespace character.
C4_NeverBlankSuccess ==
    Extracted => (pdf_res.ret.none \/ strip(pdf_res.ret.text) # <<>>)

C4_Witness ==
    /\ Extracted
    /\ uploaded_file.size <= MaxFileSize
    /\ Len(uploaded_file.pages) = MaxPages
    /\ \A n \in 1 .. MaxPages :
          uploaded_file.pages[n] = [kind |-> "text", text |-> <<" ", "\n", " ">>]
    /\ pdf_res.ret.none

\* why the extraction of a file fails, "none" when it does not
Cause(f) ==
    IF f.size > MaxFileSize THEN "oversized"
    ELSE IF ~f.readable THEN "unreadable"
    ELSE IF Len(f.pages) = 0 THEN "empty"
    ELSE IF TextPages(f) = {} THEN "no text"
    ELSE "none"

\* the failure a list of st calls tells the user about
Reported(ui) ==
    IF Len(ui) # 1 \/ ui[1].level # "error" THEN "nothing"
    ELSE IF ui[1].text = TooLarge THEN "oversized"
    ELSE IF ui[1].text = ProcessingFailed THEN "unreadable"
    ELSE IF ui[1].text = EmptyOrCorrupted THEN "empty"
    ELSE IF ui[1].text = NoReadableText THEN "no text"
    ELSE "other"

C6_SizeLimit ==
    Extracted
        => /\ uploaded_file.size > MaxFileSize
                => /\ pdf_res.ret.none
                   /\ ~pdf_res.parsed
                   /\ pdf_res.ui = <<St("error", TooLarge, 0)>>
           /\ uploaded_file.size <= MaxFileSize
                => /\ pdf_res.parsed
                   /\ \A n \in 1 .. Len(pdf_res.ui) : pdf_res.ui[n].text # TooLarge

C6_Witness ==
    /\ Extracted
    /\ uploaded_file.size = MaxFileSize + 1
    /\ uploaded_file.readable
    /\ TextPages(uploaded_file) # {}
    /\ pdf_res.ret.none

\* the texts of the first n pages that yield non-blank text, a newline after each
RECURSIVE PagesText(_, _)
PagesText(f, n) ==
    IF n = 0 THEN <<>>
    ELSE PagesText(f, n - 1)
             \o (IF n \in TextPages(f) THEN f.pages[n].text \o <<"\n">> ELSE <<>>)

PartialWarnings(ui) == {n \in DOMAIN ui : ui[n].text = PartiallyProcessed}

\* C23: in extract_text_from_pdf a page whose extraction raises, or yields
\* empty or whitespace-only text, is skipped without aborting the document:
\* the result is the concatenation, in page order, of the text of every page
\* with non-blank text, each followed by a newline, and the partial-extraction
\* warning is issued exactly when at least one page but not all pages yielded
\* text.
C23_PagesSkipped ==
    (/\ Extracted
     /\ uploaded_file.present
     /\ uploaded_file.size <= MaxFileSize
     /\ uploaded_file.readable)
        => /\ TextPages(uploaded_file) # {}
                => /\ ~pdf_res.ret.none
                   /\ pdf_res.ret.text
                        = PagesText(uploaded_file, Len(uploaded_file.pages))
           /\ PartialWarnings(pdf_res.ui) # {}
                <=> /\ TextPages(uploaded_file) # {}
                    /\ Cardinality(TextPages(uploaded_file)) < Len(uploaded_file.pages)
           /\ \A n \in PartialWarnings(pdf_res.ui) :
                  /\ pdf_res.ui[n].level = "warning"
                  /\ pdf_res.ui[n].n = Cardinality(TextPages(uploaded_file))

C23_Witness ==
    /\ Extracted
    /\ uploaded_file.size <= MaxFileSize
    /\ uploaded_file.readable
    /\ Len(uploaded_file.pages) = MaxPages
    /\ uploaded_file.pages[1].kind = "raise"
    /\ TextPages(uploaded_file) = {MaxPages}
    /\ pdf_res.ret = Text(uploaded_file.pages[MaxPages].text \o <<"\n">>)
    /\ pdf_res.ui = <<St("warning", PartiallyProcessed, 1)>>

\* the first of the checks of validate_resume_content that a text fails
FirstFailing(text) ==
    IF text.none \/ Len(text.text) = 0 \/ Len(strip(text.text)) < 100 THEN "length"
    ELSE IF Cardinality(found_indicators(text.text)) < 3 THEN "indicators"
    ELSE IF word_count(text.text) < 200 THEN "words"
    ELSE "none"

\* C24: validate_resume_content returns is_valid = True exactly when the
\* stripped text has at least 100 characters, at least 3 of the 14 resume
\* indicators occur in the lower-cased text and the text has at least 200
\* words; a text of more than 2000 words that meets these is still valid,
\* with the length advisory; the message names the first failing check, in
\* the order length, indicators, word count.
C24_ValidExactly ==
    text_res # <<>>
        => /\ text_res[1].is_valid
                <=> /\ ~text_arg.none
                    /\ Len(strip(text_arg.text)) >= 100
                    /\ Cardinality({w \in resume_indicators :
                                        Contains(lower(text_arg.text), w)}) >= 3
                    /\ word_count(text_arg.text) >= 200
           /\ FirstFailing(text_arg) = "length"
                => text_res[1].message = DocumentTooShort
           /\ FirstFailing(text_arg) = "indicators"
                => text_res[1] = Validation(FALSE, NotAResume,
                                            Cardinality(found_indicators(text_arg.text)))
           /\ FirstFailing(text_arg) = "words"
                => text_res[1] = Validation(FALSE, ResumeTooShort,
                                            word_count(text_arg.text))
           /\ FirstFailing(text_arg) = "none"
                => text_res[1].message
                       = IF word_count(text_arg.text) > 2000
                         THEN QuiteLong ELSE ValidationSuccessful

\* a text of 2001 words with three indicators is valid, with the advisory
C24_Witness ==
    /\ text_res # <<>>
    /\ ~text_arg.none
    /\ word_count(text_arg.text) = 2001
    /\ Cardinality(resume_indicators) = 14
    /\ text_res[1] = Validation(TRUE, QuiteLong, 2001)

\* the whitespace-separated tokens of a text, in order
Tokens(s) ==
    [k \in 1 .. word_count(s) |->
        CHOOSE token \in {SubSeq(s, n, m) : n \in Solid(s), m \in Solid(s)} :
            \E n \in Solid(s), m \in Solid(s) :
                /\ token = SubSeq(s, n, m)
                /\ n <= m
                /\ \A j \in n .. m : j \in Solid(s)
                /\ n = 1 \/ IsSpace(s[n - 1])
                /\ m = Len(s) \/ IsSpace(s[m + 1])
                /\ Cardinality({j \in Solid(s) : j <= n /\ (j = 1 \/ IsSpace(s[j - 1]))}) = k]

\* position n of s is a single space between two non-whitespace characters
SingleSpace(s, n) ==
    /\ s[n] = " "
    /\ n > 1 /\ ~IsSpace(s[n - 1])
    /\ n < Len(s) /\ ~IsSpace(s[n + 1])

\* positions n, n + 1 of s are a paragraph break after a sentence terminator
\* and before an upper-case letter
ParagraphBreak(s, n) ==
    /\ n > 1 /\ n + 1 < Len(s)
    /\ s[n] = "\n" /\ s[n + 1] = "\n"
    /\ s[n - 1] \in Terminators
    /\ s[n + 2] \in Uppercase

\* C25: preprocess_text is idempotent and keeps the sequence of
\* whitespace-separated tokens of its input; its output has no leading or
\* trailing whitespace, every whitespace run in it is one space or a
\* paragraph break between a sentence terminator and an upper-case letter,
\* and an empty or missing input gives the empty string.
C25_Preprocess ==
    /\ Len(text_res) >= 1
            => /\ Tokens(text_res[1]) = Tokens(text_arg.text)
               /\ text_res[1] = <<>>
                    \/ (~IsSpace(text_res[1][1]) /\ ~IsSpace(text_res[1][Len(text_res[1])]))
               /\ \A n \in DOMAIN text_res[1] :
                      IsSpace(text_res[1][n])
                          => \/ SingleSpace(text_res[1], n)
                             \/ ParagraphBreak(text_res[1], n)
                             \/ ParagraphBreak(text_res[1], n - 1)
               /\ (text_arg.none \/ text_arg.text = <<>>) => text_res[1] = <<>>
    /\ Len(text_res) = 2 => text_res[2] = text_res[1]

\* a text with blank lines and runs of whitespace, processed twice
C25_Witness ==
    /\ Len(text_res) = 2
    /\ text_arg = Text(<<"\n", ".", " ", "\n", "A">>)
    /\ text_res[1] = <<".", "\n", "\n", "A">>
    /\ text_res[2] = text_res[1]

TooShortMessages == {DocumentTooShort, ResumeTooShort}

\* C7 (as claimed): an extracted text of fewer than 200 words is reported
\* invalid with a "too short" message.
C7_TooShortMessage ==
    (pdf_pc = "validated" /\ word_count(pdf_res.ret.text) < 200)
        => /\ ~pdf_val.is_valid
           /\ pdf_val.message \in TooShortMessages

\* C7 (amended): an extracted text of fewer than 200 words is reported
\* invalid; the message is a "too short" message unless the stripped text
\* has at least 100 characters and fewer than 3 resume indicators, in which
\* case it is the "may not be a resume" message with the number found.
C7_TooShortInvalid ==
    (pdf_pc = "validated" /\ word_count(pdf_res.ret.text) < 200)
        => /\ ~pdf_val.is_valid
           /\ IF /\ Len(strip(pdf_res.ret.text)) >= 100
                 /\ Cardinality(found_indicators(pdf_res.ret.text)) < 3
              THEN /\ pdf_val.message = NotAResume
                   /\ pdf_val.n = Cardinality(found_indicators(pdf_res.ret.text))
              ELSE pdf_val.message \in TooShortMessages

C7_Witness ==
    /\ pdf_pc = "validated"
    /\ word_count(pdf_res.ret.text) = 199
    /\ pdf_val = Validation(FALSE, ResumeTooShort, 199)

----------------------------------------------------------------------------
(* Claims about the analysis run *)

RunOver == pc \in {"results", "done"}

\* C8: a failed content validation does not stop the run: when extraction
\* gives a non-empty text the run validates, shows a warning (invalid) or a
\* success (valid), goes on to parse the sections and stores what the parser
\* returns; only a missing or empty extraction result ends the run before
\* parsing.
C8_ValidationRecoverable ==
    (RunOver /\ Did("extract"))
        => IF TruthyText(pdf_res.ret)
           THEN /\ Did("validate")
                /\ \E n \in 1 .. Len(run.ui) :
                      run.ui[n] = St(IF pdf_val.is_valid THEN "success" ELSE "warning",
                                     <<pdf_val.message>>, pdf_val.n)
                /\ Did("parse")
                /\ run.parse = "returned"
                      => /\ Did("store")
                         /\ session_state.analysis_complete
                         /\ session_state.resume_text = pdf_res.ret
                         /\ session_state.target_role = widgets.target_role
                         /\ session_state.analysis_mode = widgets.analysis_mode
           ELSE ~Did("validate") /\ ~Did("parse") /\ ~Did("store")

C8_Witness ==
    /\ pc = "done"
    /\ Did("validate")
    /\ ~pdf_val.is_valid
    /\ Did("store")
    /\ session_state.resume_text = pdf_res.ret
    /\ run.displayed

------------------------------------------------------------\* the results panel has been rendered in this run
Rendered == pc = "done" /\ run.displayed

SectionReported(section) ==
    \E n \in DOMAIN run.render.calls :
        run.render.calls[n].section = section /\ run.render.calls[n].returned

C12_SectionsIsolated ==
    Rendered
        => \A n \in DOMAIN run.render.calls :
              ~run.render.calls[n].returned
                  => \A t \in {"score", "strengths", "weaknesses", "match"}
                              \ {run.render.calls[n].section} : SectionReported(t)

\* C13: skipping the text-generation call alters nothing else: a run without
\* an API key makes no external call, and what a run stores (resume_text,
\* sections, target_role, analysis_mode) and what the score, strengths,
\* weaknesses, improvement-plan and job-market sections are given depend on
\* the extracted text and the sidebar only, not on the key.
C13_SkipAltersNothing ==
    /\ (RunOver /\ ~Truthy(widgets.api_key)) => run.calls = 0
    /\ (RunOver /\ Did("store"))
          => /\ session_state.resume_text = pdf_res.ret
             /\ session_state.sections = extract_comprehensive_sections(pdf_res.ret)
             /\ session_state.target_role = widgets.target_role
             /\ session_state.analysis_mode = widgets.analysis_mode
    /\ Rendered
          => /\ \A n \in DOMAIN run.render.calls :
                   run.render.calls[n].args =
                       <<session_state.resume_text, session_state.sections,
                         session_state.target_role>>
             /\ ~run.render.raised
                   => [n \in DOMAIN run.render.calls |-> run.render.calls[n].section]
                          = RenderOrder

C13_Witness ==
    /\ Rendered
    /\ ~Truthy(widgets.api_key)
    /\ Did("store")
    /\ ~Did("ai")
    /\ run.calls = 0
    /\ Truthy(session_state.target_role)
    /\ ~run.render.raised
    /\ run.render.ai = NoInsights

\* C17: analysis_complete implies that resume_text is a non-empty extracted
\* text and sections is the parse of that text; the five stored values change
\* only in the store of a run whose extraction gave a text and whose parser
\* returned, so a run whose extraction returns nothing or whose parsing raises
\* leaves them unchanged.
Stored ==
    <<session_state.analysis_complete, session_state.resume_text, session_state.sections,
      session_state.target_role, session_state.analysis_mode>>

C17_CompleteMeansParsed ==
    /\ [](session_state.analysis_complete
             => /\ TruthyText(session_state.resume_text)
                /\ session_state.sections
                      = extract_comprehensive_sections(session_state.resume_text))
    /\ [][Stored' # Stored
             => /\ pc = "parse"
                /\ run'.parse = "returned"
                /\ TruthyText(pdf_res.ret)
                /\ session_state'.resume_text = pdf_res.ret]_vars

\* a run whose parser raised, after an earlier run stored another resume
C17_Witness ==
    /\ RunOver
    /\ run.parse = "raised"
    /\ session_state.analysis_complete
    /\ TruthyText(pdf_res.ret)
    /\ session_state.resume_text # pdf_res.ret
    /\ session_state.sections = extract_comprehensive_sections(session_state.resume_text)

\* a stored comprehensive AI result that is a degraded message: the
\* no-credential message or the message of a failed call
Degraded(value) ==
    \/ value = NoKeyComprehensive
    \/ startswith(value, "Role-specific AI analysis unavailable: ")

\* C18: the AI assessment shown in the AI insights tab (a generated one, shown
\* as analysis) was generated from the resume text currently stored in the
\* session state.
C18_AIOfStoredResume ==
    (/\ Rendered
     /\ run.render.ai.comprehensive = "analysis"
     /\ ~Degraded(run.render.ai.text))
        => session_state.ai_for = session_state.resume_text

\* C19: with an API key and a target role both set, a run that completes
\* stores a role-specific AI result under 'ai_targeted'.
C19_TargetedStored ==
    (RunOver /\ Did("ai") /\ Truthy(widgets.api_key) /\ Truthy(widgets.target_role))
        => session_state.ai_targeted # Absent

\* C20: a stored comprehensive AI result that is a degraded message (the
\* no-credential message or the message of a failed call) is shown as the
\* "AI analysis not available" warning, never rendered as analysis.
C20_DegradedWarned ==
    (Rendered /\ run.render.ai.comprehensive # "absent")
        => (Degraded(run.render.ai.text) => run.render.ai.comprehensive = "warning")

\* the improvement plan rendered in this run, once its tab has been built
PlanCall ==
    CHOOSE c \in {run.render.calls[n] : n \in DOMAIN run.render.calls} :
        c.section = "plan"

Occurrences(w, list) == Cardinality({n \in DOMAIN list : list[n] = w})

\* C21: every weakness record the rule engine returns appears in exactly one
\* priority tier of the improvement plan, the tier its fix_priority starts
\* with; none is dropped and none appears twice.
C21_PlanKeepsAll ==
    (Rendered /\ SectionReported("plan"))
        => \A n \in DOMAIN PlanCall.lists[2] :
              /\ Occurrences(PlanCall.lists[2][n],
                             PlanCall.plan.critical_fixes \o PlanCall.plan.high_priority
                                 \o PlanCall.plan.medium_priority) = 1
              /\ PlanCall.lists[2][n].fix_priority[1] = "CRITICAL"
                    => Occurrences(PlanCall.lists[2][n], PlanCall.plan.critical_fixes) = 1
              /\ PlanCall.lists[2][n].fix_priority[1] = "HIGH"
                    => Occurrences(PlanCall.lists[2][n], PlanCall.plan.high_priority) = 1
              /\ PlanCall.lists[2][n].fix_priority[1] = "MEDIUM"
                    => Occurrences(PlanCall.lists[2][n], PlanCall.plan.medium_priority) = 1

\* C22: when a role is chosen from the catalog list, the target_role stored
\* and handed to the scoring engine, the rule engine and the role matcher is
\* the catalog key whose display name was selected.
C22_CatalogKey ==
    (/\ RunOver
     /\ Did("store")
     /\ widgets.analysis_mode \in {"Target Specific Role", "Career Exploration"}
     /\ widgets.selected_display # "Custom Role")
        => /\ session_state.target_role \in available_roles
           /\ DisplayName(session_state.target_role) = widgets.selected_display
           /\ Rendered => \A n \in DOMAIN run.render.calls :
                              run.render.calls[n].args[3] = session_state.target_role

----------------
(* Claims about the scores *)

\* C9: the band shown is a fixed function of the percentage
\* total_score / max_score * 100: Excellent from 80, Very Good from 70 to
\* below 80, Good from 60 to below 70, Fair from 45 to below 60, Needs Work
\* below 45; the boundary values belong to the higher band.
C9_Bands ==
    score_pc \in {"overview", "detailed"}
        => LET t == scoring.total_score * 100
               m == scoring.max_score
               band == shown.overview.band
           IN /\ m > 0
              /\ band = "Excellent" <=> t >= 80 * m
              /\ band = "Very Good" <=> (t >= 70 * m /\ t < 80 * m)
              /\ band = "Good" <=> (t >= 60 * m /\ t < 70 * m)
              /\ band = "Fair" <=> (t >= 45 * m /\ t < 60 * m)
              /\ band = "Needs Work" <=> t < 45 * m

C9_Witness ==
    /\ score_pc = "overview"
    /\ scoring.total_score * 100 = 45 * scoring.max_score
    /\ shown.overview.band = "Fair"

====
